---- MODULE Spec2Model ----
(***************************************************************************)
(* Model of nlmunicipality (src/nlmunicipality/guess.py): the engine       *)
(* GuessMunicipality, its reference tables, the Normalizer (clean), the    *)
(* historical lookup, the fuzzy matcher and the tiered cascade (guess)     *)
(* with its per-instance cache found_results.                              *)
(*                                                                         *)
(* Python strings are TLA+ strings; Len, SubSeq and \o act on them.        *)
(* Python's None is the value None below.                                  *)
(***************************************************************************)
EXTENDS Integers, Sequences, FiniteSets, TLC

VARIABLES
    gm,                 \* self.gm: scope key -> ordered dict (sequence of <<key, value>>)
    wp,                 \* self.wp
    wb,                 \* self.wb
    replace,            \* self.replace
    muni_history_wiki,  \* self.muni_history_wiki (sequence of rows)
    muni_history_cbs,   \* self.muni_history_cbs (sequence of rows)
    found_results,      \* self.found_results: params_key -> <<result, method>>
    args,               \* the arguments of the call in progress / last made
    ret,                \* what that call did: how it ended and what it returned
    ncalls,             \* number of calls made so far
    log                 \* history: the calls made, each with what it did

vars == <<gm, wp, wb, replace, muni_history_wiki, muni_history_cbs,
          found_results, args, ret, ncalls, log>>

None == "<None>"
\* None where the value is otherwise a tuple (extractOne's result)
NoMatch == <<>>

(***************************************************************************)
(* Python str operations                                                   *)
(***************************************************************************)
Ch(s, i) == SubSeq(s, i, i)

\* s[i:] and s[:i] with 1-based positions
From(s, i) == SubSeq(s, i, Len(s))
Upto(s, i) == SubSeq(s, 1, i)

\* s.startswith(p) at position i
MatchAt(s, p, i) == i + Len(p) - 1 <= Len(s) /\ SubSeq(s, i, i + Len(p) - 1) = p

startswith(s, p) == MatchAt(s, p, 1)

endswith(s, p) == Len(p) <= Len(s) /\ MatchAt(s, p, Len(s) - Len(p) + 1)

\* p in s
contains(s, p) == \E i \in 1..(Len(s) + 1) : MatchAt(s, p, i)

\* s.replace(old, new): left to right, non-overlapping; old is never empty here
RECURSIVE str_replace(_, _, _)
str_replace(s, old, new) ==
    IF Len(s) = 0 THEN ""
    ELSE IF MatchAt(s, old, 1)
         THEN new \o str_replace(From(s, Len(old) + 1), old, new)
         ELSE Ch(s, 1) \o str_replace(From(s, 2), old, new)

\* s.strip()
RECURSIVE lstrip(_)
lstrip(s) == IF Len(s) > 0 /\ Ch(s, 1) = " " THEN lstrip(From(s, 2)) ELSE s

RECURSIVE rstrip(_)
rstrip(s) == IF Len(s) > 0 /\ Ch(s, Len(s)) = " " THEN rstrip(Upto(s, Len(s) - 1)) ELSE s

strip(s) == rstrip(lstrip(s))

\* s.lower()
UPPERCASE == "ABCDEFGHIJKLMNOPQRSTUVWXYZ"
LOWERCASE == "abcdefghijklmnopqrstuvwxyz"

lower_char(c) ==
    IF \E i \in 1..Len(UPPERCASE) : Ch(UPPERCASE, i) = c
    THEN Ch(LOWERCASE, CHOOSE i \in 1..Len(UPPERCASE) : Ch(UPPERCASE, i) = c)
    ELSE c

RECURSIVE lower(_)
lower(s) == IF Len(s) = 0 THEN "" ELSE lower_char(Ch(s, 1)) \o lower(From(s, 2))

\* s.split(sep) for a one-character separator
RECURSIVE split_acc(_, _, _)
split_acc(s, sep, cur) ==
    IF Len(s) = 0 THEN <<cur>>
    ELSE IF Ch(s, 1) = sep THEN <<cur>> \o split_acc(From(s, 2), sep, "")
         ELSE split_acc(From(s, 2), sep, cur \o Ch(s, 1))

split(s, sep) == split_acc(s, sep, "")

\* s.isnumeric()
DIGITS == "0123456789"
is_digit(c) == \E i \in 1..Len(DIGITS) : Ch(DIGITS, i) = c
isnumeric(s) == Len(s) > 0 /\ \A i \in 1..Len(s) : is_digit(Ch(s, i))

\* a <= b for two strings of digits (dates %Y, %Y%m, %Y%m%d): Python compares
\* strings lexicographically, a proper prefix being smaller
digit_val(c) == CHOOSE i \in 0..9 : Ch(DIGITS, i + 1) = c

RECURSIVE str_le(_, _)
str_le(a, b) ==
    IF Len(a) = 0 THEN TRUE
    ELSE IF Len(b) = 0 THEN FALSE
    ELSE IF Ch(a, 1) = Ch(b, 1) THEN str_le(From(a, 2), From(b, 2))
    ELSE digit_val(Ch(a, 1)) < digit_val(Ch(b, 1))

\* ordered dict helpers: a dict is a sequence of <<key, value>> pairs with
\* distinct keys, in insertion order
dict_has(d, k) == \E i \in 1..Len(d) : d[i][1] = k
dict_get(d, k) == d[CHOOSE i \in 1..Len(d) : d[i][1] = k][2]
dict_keys(d) == [i \in 1..Len(d) |-> d[i][1]]
\* d[k] = v
dict_set(d, k, v) ==
    IF dict_has(d, k)
    THEN [i \in 1..Len(d) |-> IF d[i][1] = k THEN <<k, v>> ELSE d[i]]
    ELSE Append(d, <<k, v>>)

(***************************************************************************)
(* Module constants (guess.py:16-60)                                       *)
(***************************************************************************)
REMOVE == <<"the netherlands", "nederland", "netherlands", " holland", "gemeente",
            "europe", "europa">>

\* (the fourth key is three cross marks in the source, written ××× here: also non-ASCII)
RECODE_GEM == << <<"den bosch", "'s-Hertogenbosch">>,
                 <<"den haag", "'s-Gravenhage">>,
                 <<"the hague", "'s-Gravenhage">>,
                 <<"×××", "Amsterdam">> >>

DELIMITERS == <<"|", "/", "&", "(", ")">>

MATCH_YEAR == 2022
THRESHOLD_FUZZY == 85
THRESHOLD_RATIO == 80

\* constructor arguments of the engine under study (guess.py:65-76):
\* ignore: input values never to resolve; remove defaults to REMOVE
IGNORE == <<"onbekend">>

in_list(x, l) == \E i \in 1..Len(l) : l[i] = x

(***************************************************************************)
(* Normalizer: GuessMunicipality.clean                                     *)
(***************************************************************************)
RECURSIVE remove_all(_, _, _)
remove_all(s, l, i) ==
    IF i > Len(l) THEN s ELSE remove_all(str_replace(s, l[i], ""), l, i + 1)

\* re.findall(GRAVEN, s): <<>> when there is no match, else <<group 1>>
\* (the two typographic quotes of the pattern are left out: no input of the
\* model holds one)
GRAVEN_QUOTES == <<"'", "|">>
GRAVEN_SEPS == <<"-", "|", " ">>

RECURSIVE skip_quotes(_)
skip_quotes(s) ==
    IF Len(s) > 0 /\ in_list(Ch(s, 1), GRAVEN_QUOTES) THEN skip_quotes(From(s, 2)) ELSE s

findall_GRAVEN(s) ==
    LET r == skip_quotes(s) IN
    IF /\ Len(r) >= 8
       /\ Ch(r, 1) = "s"
       /\ in_list(Ch(r, 2), GRAVEN_SEPS)
       /\ MatchAt(r, "graven", 3)
    THEN <<From(r, 9)>>
    ELSE <<>>

\* re.sub(r"^'s ", "'s-", s)
sub_apostrophe_s(s) == IF startswith(s, "'s ") THEN "'s-" \o From(s, 4) ELSE s

BERGEN_NH_HINTS == <<"n.h.", "(nh", " nh", "noord-holland">>
BERGEN_L_HINTS == <<"(l)", "(l.)", " l ", "limburg">>

clean(self, substring0) ==
    LET s1 == strip(substring0) IN
    IF startswith(s1, "bergen ") /\ \E i \in 1..Len(BERGEN_NH_HINTS) : contains(s1, BERGEN_NH_HINTS[i])
    THEN "Bergen (NH.)"
    ELSE IF startswith(s1, "bergen ") /\ \E i \in 1..Len(BERGEN_L_HINTS) : contains(s1, BERGEN_L_HINTS[i])
    THEN "Bergen (L.)"
    ELSE IF in_list(s1, IGNORE) THEN None
    ELSE
      LET s2 == IF contains(s1, " a/d ") THEN str_replace(s1, " a/d ", " aan den ") ELSE s1
          s3 == remove_all(s2, REMOVE, 1)
          graven == findall_GRAVEN(s3)
          s4 == IF graven # <<>> THEN "'s-graven" \o graven[1] ELSE s3
          s5 == sub_apostrophe_s(s4)
      IN IF dict_has(self.replace, s5) THEN dict_get(self.replace, s5) ELSE s5

(***************************************************************************)
(* Fuzzy matcher: fuzzywuzzy's process.extractOne with                     *)
(* scorer=fuzz.token_sort_ratio, as called at guess.py:592 and 793         *)
(***************************************************************************)
\* utils.full_process(s, force_ascii=True): non-ASCII characters dropped,
\* every character that is not a letter, a digit or "_" becomes a blank,
\* lower-cased, stripped
WORD_CHARS == "abcdefghijklmnopqrstuvwxyz0123456789_"
char_rank(c) == CHOOSE i \in 1..Len(WORD_CHARS) : Ch(WORD_CHARS, i) = c
is_word_char(c) == \E i \in 1..Len(WORD_CHARS) : Ch(WORD_CHARS, i) = c
ASCII_PUNCT == " '()-./|&,;"
is_ascii(c) == is_word_char(lower_char(c)) \/ \E i \in 1..Len(ASCII_PUNCT) : Ch(ASCII_PUNCT, i) = c

RECURSIVE process_chars(_)
process_chars(s) ==
    IF Len(s) = 0 THEN ""
    ELSE LET c == lower_char(Ch(s, 1)) IN
         (IF ~is_ascii(Ch(s, 1)) THEN "" ELSE IF is_word_char(c) THEN c ELSE " ")
         \o process_chars(From(s, 2))

full_process(s) == strip(process_chars(s))

\* s.split(): the maximal runs of non-blank characters
RECURSIVE tokens_acc(_, _)
tokens_acc(s, cur) ==
    IF Len(s) = 0 THEN (IF cur = "" THEN <<>> ELSE <<cur>>)
    ELSE IF Ch(s, 1) = " "
         THEN (IF cur = "" THEN <<>> ELSE <<cur>>) \o tokens_acc(From(s, 2), "")
         ELSE tokens_acc(From(s, 2), cur \o Ch(s, 1))

tokens(s) == tokens_acc(s, "")

\* a < b for processed tokens (code point order restricted to WORD_CHARS is
\* digits < "_" < letters)
code_point(c) ==
    IF is_digit(c) THEN digit_val(c) ELSE IF c = "_" THEN 10 ELSE 10 + char_rank(c)

RECURSIVE token_lt(_, _)
token_lt(a, b) ==
    IF Len(b) = 0 THEN FALSE
    ELSE IF Len(a) = 0 THEN TRUE
    ELSE IF Ch(a, 1) = Ch(b, 1) THEN token_lt(From(a, 2), From(b, 2))
    ELSE code_point(Ch(a, 1)) < code_point(Ch(b, 1))

\* sorted(tokens): insertion sort
RECURSIVE insert_sorted(_, _)
insert_sorted(t, l) ==
    IF Len(l) = 0 THEN <<t>>
    ELSE IF token_lt(l[1], t) \/ l[1] = t THEN <<l[1]>> \o insert_sorted(t, Tail(l))
    ELSE <<t>> \o l

RECURSIVE sorted(_)
sorted(l) == IF Len(l) = 0 THEN <<>> ELSE insert_sorted(l[1], sorted(Tail(l)))

RECURSIVE join(_)
join(l) == IF Len(l) = 0 THEN "" ELSE IF Len(l) = 1 THEN l[1] ELSE l[1] \o " " \o join(Tail(l))

process_and_sort(s) == strip(join(sorted(tokens(s))))

\* difflib.SequenceMatcher (fuzzywuzzy's matcher when python-Levenshtein is
\* not installed; setup.py does not require it).
\* run(a, b, i, j): length of the common run of a[i..] and b[j..]
RECURSIVE run(_, _, _, _)
run(a, b, i, j) ==
    IF i <= Len(a) /\ j <= Len(b) /\ Ch(a, i) = Ch(b, j) THEN 1 + run(a, b, i + 1, j + 1) ELSE 0

\* find_longest_match: <<i, j, k>>, the longest common block, the earliest
\* in a among the longest and then the earliest in b; k = 0 when none
find_longest_match(a, b) ==
    LET before(t, u) ==
            \/ t[3] > u[3]
            \/ t[3] = u[3] /\ t[1] < u[1]
            \/ t[3] = u[3] /\ t[1] = u[1] /\ t[2] <= u[2]
        first(runs) == CHOOSE t \in runs : \A u \in runs : before(t, u)
    IN IF Len(a) = 0 \/ Len(b) = 0 THEN <<0, 0, 0>>
       ELSE first({<<p[1], p[2], run(a, b, p[1], p[2])>> : p \in (1..Len(a)) \X (1..Len(b))})

\* sum of the sizes of get_matching_blocks()
RECURSIVE matches(_, _)
matches(a, b) ==
    LET around(m) ==
            IF m[3] = 0 THEN 0
            ELSE matches(Upto(a, m[1] - 1), Upto(b, m[2] - 1)) + m[3]
                 + matches(From(a, m[1] + m[3]), From(b, m[2] + m[3]))
    IN around(find_longest_match(a, b))

\* int(round(n / d)) for n, d > 0: Python rounds a half to the even integer
round_div(n, d) ==
    LET q == n \div d
        r == n % d
    IN IF 2 * r < d THEN q
       ELSE IF 2 * r > d THEN q + 1
       ELSE IF q % 2 = 0 THEN q ELSE q + 1

\* fuzz.ratio, with its decorators check_for_equivalence and check_empty_string
fuzz_ratio(s1, s2) ==
    IF s1 = s2 THEN 100
    ELSE IF Len(s1) = 0 \/ Len(s2) = 0 THEN 0
    ELSE round_div(200 * matches(s1, s2), Len(s1) + Len(s2))

\* the score extractOne gives a choice: both sides full_process'ed once, then
\* token_sort_ratio(..., full_process=False)
token_sort_ratio(query, choice) ==
    fuzz_ratio(process_and_sort(full_process(full_process(query))),
               process_and_sort(full_process(choice)))

\* The inputs of the model's calls (the calls themselves are further down)
\* and the strings the cascade can hand to the matcher for them: each
\* input lower-cased, as it is and with the Normalizer's rewriting steps
\* applied (REMOVE, the area codes' places).
INPUTS == <<"Venlo", "tegelen", "hollum", "blerick", "venloo", "tegelem", "holum", "blerik",
            "Bergen NH", "onbekend", "077", "x", "den haag", "buren", "beek", "xyzzy jkl",
            "nieuw-wehl", "well", "belveld", "venlo nederland", "??", "venlo|hollum", "zuilen">>

KEYS == <<"ameland", "buren", "venlo", "bergen (l.)", "den bosch", "den haag", "the hague",
          "×××", "hollum", "tegelen", "well", "blerick", "centrum", "ballum", "belfeld",
          "beek", "bergh", "nieuw-wehl", "wehl", "venlo en blerick", "well (l.)",
          "utrecht", "amsterdam", "'s-gravenhage", "'s-hertogenbosch", "zuilen">>

\* token_sort_ratio over INPUTS x KEYS, computed once
score_table ==
    [q \in {lower(INPUTS[i]) : i \in 1..Len(INPUTS)}
           \cup {strip(remove_all(lower(INPUTS[i]), REMOVE, 1)) : i \in 1..Len(INPUTS)}
           \cup {remove_all(lower(INPUTS[i]), REMOVE, 1) : i \in 1..Len(INPUTS)},
     k \in {KEYS[i] : i \in 1..Len(KEYS)} |-> token_sort_ratio(q, k)]

token_sort_score(query, choice) ==
    IF <<query, choice>> \in DOMAIN score_table THEN score_table[query, choice]
    ELSE token_sort_ratio(query, choice)

\* process.extractOne(query, choices, scorer=fuzz.token_sort_ratio):
\* <<match, score>> of the first best-scoring choice, NoMatch (None) for no choices
extractOne(query, choices) ==
    IF Len(choices) = 0 THEN NoMatch
    ELSE LET first_best(sc) ==
                 CHOOSE m \in {<<choices[i], sc[i]>> : i \in {i \in 1..Len(choices) :
                                   /\ \A j \in 1..Len(choices) : sc[j] <= sc[i]
                                   /\ \A j \in 1..(i - 1) : sc[j] < sc[i]}} : TRUE
         IN first_best([i \in 1..Len(choices) |-> token_sort_score(query, choices[i])])

(***************************************************************************)
(* Reference tables handed to the constructor (the collaborators' output). *)
(* A small country: seven provinces, eight municipalities.                 *)
(***************************************************************************)
\* wp_table: Woonplaatsen (place), Naam_2 (municipality), Naam_4 (province)
WP_TABLE == <<
    [Woonplaatsen |-> "Hollum",  Naam_2 |-> "Ameland",     Naam_4 |-> "Fryslân"],
    [Woonplaatsen |-> "Buren",   Naam_2 |-> "Ameland",     Naam_4 |-> "Fryslân"],
    [Woonplaatsen |-> "Buren",   Naam_2 |-> "Buren",       Naam_4 |-> "Gelderland"],
    [Woonplaatsen |-> "Venlo",   Naam_2 |-> "Venlo",       Naam_4 |-> "Limburg"],
    [Woonplaatsen |-> "Tegelen", Naam_2 |-> "Venlo",       Naam_4 |-> "Limburg"],
    [Woonplaatsen |-> "Well",    Naam_2 |-> "Bergen (L.)", Naam_4 |-> "Limburg"],
    [Woonplaatsen |-> "Utrecht", Naam_2 |-> "Utrecht",     Naam_4 |-> "Utrecht"],
    [Woonplaatsen |-> "Amsterdam", Naam_2 |-> "Amsterdam", Naam_4 |-> "Noord-Holland"],
    [Woonplaatsen |-> "'s-Gravenhage", Naam_2 |-> "'s-Gravenhage", Naam_4 |-> "Zuid-Holland"],
    [Woonplaatsen |-> "'s-Hertogenbosch", Naam_2 |-> "'s-Hertogenbosch",
     Naam_4 |-> "Noord-Brabant"] >>

\* kwb_table: WijkenEnBuurten, Gemeentenaam_1, SoortRegio_2
KWB_TABLE == <<
    [WijkenEnBuurten |-> "Venlo",   Gemeentenaam_1 |-> "Venlo",   SoortRegio_2 |-> "Gemeente"],
    [WijkenEnBuurten |-> "Blerick", Gemeentenaam_1 |-> "Venlo",   SoortRegio_2 |-> "Wijk"],
    [WijkenEnBuurten |-> "Centrum", Gemeentenaam_1 |-> "Venlo",   SoortRegio_2 |-> "Buurt"],
    [WijkenEnBuurten |-> "Centrum", Gemeentenaam_1 |-> "Buren",   SoortRegio_2 |-> "Buurt"],
    [WijkenEnBuurten |-> "Ballum",  Gemeentenaam_1 |-> "Ameland", SoortRegio_2 |-> "Wijk"] >>

\* area_codes (code, place), merged into self.replace by get_config
AREA_CODES == << <<"077", "venlo">> >>

\* the encyclopedia table of former municipalities, as downloaded
WIKI_TABLE == <<
    [code |-> 10631, Gemeente |-> "Tegelen", Provincie |-> "Limburg",
     Alternatieve_namen |-> None, Bestaan_vanaf |-> "?", Bestaan_tot |-> "01-01-2001",
     Opgegaan_in |-> "Venlo"],
    [code |-> 10632, Gemeente |-> "Tegelen", Provincie |-> "Limburg",
     Alternatieve_namen |-> None, Bestaan_vanaf |-> "?", Bestaan_tot |-> "01-01-1815",
     Opgegaan_in |-> "Venlo"],
    [code |-> 10633, Gemeente |-> "Belfeld", Provincie |-> "Limburg[1]",
     Alternatieve_namen |-> "Belveld; Belfelt", Bestaan_vanaf |-> "?", Bestaan_tot |-> "01-01-2001",
     Opgegaan_in |-> "Venlo"],
    [code |-> 11000, Gemeente |-> "Beek (Gld)", Provincie |-> "Gelderland",
     Alternatieve_namen |-> None, Bestaan_vanaf |-> "?", Bestaan_tot |-> "01-01-1818",
     Opgegaan_in |-> "Bergh"],
    [code |-> 11001, Gemeente |-> "Beek", Provincie |-> "Limburg",
     Alternatieve_namen |-> None, Bestaan_vanaf |-> "?", Bestaan_tot |-> "01-01-1982",
     Opgegaan_in |-> "Venlo (naamswijziging)"],
    [code |-> 11002, Gemeente |-> "Bergh", Provincie |-> "Gelderland",
     Alternatieve_namen |-> None, Bestaan_vanaf |-> "01-01-1811", Bestaan_tot |-> "01-01-2005",
     Opgegaan_in |-> "Buren"],
    [code |-> 11003, Gemeente |-> "Nieuw-Wehl", Provincie |-> "Gelderland",
     Alternatieve_namen |-> None, Bestaan_vanaf |-> "?", Bestaan_tot |-> "01-01-1960",
     Opgegaan_in |-> "Wehl"],
    [code |-> 11004, Gemeente |-> "Ballum", Provincie |-> "Friesland",
     Alternatieve_namen |-> None, Bestaan_vanaf |-> "?", Bestaan_tot |-> "01-01-1900",
     Opgegaan_in |-> "Ameland; Terschelling"] >>

\* the register table (sheet Gemeente): Gemeentecode, Naam, Toelichting.
\* A Toelichting is kept as what the patterns CREATED, ENDED, RENAMED,
\* GM_CODE and POP find in its text: the dates (dd, mm, yyyy joined as
\* yyyymmdd by parse_explanation), the code on the line "nieuwe naam"
\* (None: the text has no such line) and the destination lines after
\* "Opgeheven ... overgegaan naar:" as <<gm_code, population>>.
Toelichting(created, ended, renamed, nieuwe_naam, dests) ==
    [created |-> created, ended |-> ended, renamed |-> renamed,
     nieuwe_naam |-> nieuwe_naam, dests |-> dests]

CBS_TABLE == <<
    [Gemeentecode |-> "GM0983", Naam |-> "Venlo",
     Toelichting |-> Toelichting("20010101", None, None, None, <<>>)],
    [Gemeentecode |-> "GM0060", Naam |-> "Ameland",
     Toelichting |-> Toelichting(None, None, None, None, <<>>)],
    [Gemeentecode |-> "GM0214", Naam |-> "Buren",
     Toelichting |-> Toelichting(None, None, None, None, <<>>)],
    [Gemeentecode |-> "GM0893", Naam |-> "Bergen (L.)",
     Toelichting |-> Toelichting(None, None, None, None, <<>>)],
    [Gemeentecode |-> "GM0885", Naam |-> "Tegelen",
     Toelichting |-> Toelichting(None, "20010101", None, None, << <<"GM0983", 190>> >>)],
    [Gemeentecode |-> "GM0001", Naam |-> "Beek",
     Toelichting |-> Toelichting(None, "19820101", None, None,
                                 << <<"GM0060", 200>>, <<"GM0983", 800>> >>)],
    [Gemeentecode |-> "GM0002", Naam |-> "Bergh",
     Toelichting |-> Toelichting("18110101", "20050101", None, None,
                                 << <<"GM0214", 900>>, <<"GM0060", 100>> >>)],
    [Gemeentecode |-> "GM0004", Naam |-> "Wehl (gemeente)",
     Toelichting |-> Toelichting(None, "19700101", None, None,
                                 << <<"GM0002", 850>>, <<"GM0060", 150>> >>)],
    [Gemeentecode |-> "GM0005", Naam |-> "Venlo en Blerick",
     Toelichting |-> Toelichting(None, None, "19400101", "GM0983", <<>>)],
    [Gemeentecode |-> "GM0006", Naam |-> "Well (L.)",
     Toelichting |-> Toelichting(None, "19690101", None, None, << <<"GM0893", 25>> >>)],
    [Gemeentecode |-> "GM0344", Naam |-> "Utrecht (gemeente)",
     Toelichting |-> Toelichting(None, None, None, None, <<>>)],
    [Gemeentecode |-> "GM0355", Naam |-> "Zuilen",
     Toelichting |-> Toelichting(None, "19540101", None, None, << <<"GM0344", 270>> >>)] >>

(***************************************************************************)
(* Historical Chain Resolver, register chain: parse_explanation, follow,   *)
(* extract_province, parse_muni_history_cbs                                *)
(***************************************************************************)
\* self.match_year and self.threshold_ratio of the engine under study
match_year == ToString(MATCH_YEAR)
threshold_ratio == THRESHOLD_RATIO

\* A ratio is a percentage kept exactly, as <<numerator, denominator>>;
\* NoRatio is Python's None in that place.
\* (in lowest terms, which keeps the numbers small)
NoRatio == <<>>
RECURSIVE gcd(_, _)
gcd(a, b) == IF b = 0 THEN a ELSE gcd(b, a % b)
ratio_of(n, d) == LET g == gcd(n, d) IN <<n \div g, d \div g>>
\* ratio > threshold
ratio_gt(r, t) == r[1] > t * r[2]
\* the ratio of the last hop alone
ratio_of_hop(r, nw) == nw

\* ratio * (nw_ratio / 100)
ratio_mul(r, nw) ==
    LET a == ratio_of(r[1], 100 * r[2])
        b == ratio_of(nw[1] * a[1], nw[2])
    IN ratio_of(b[1], b[2] * a[2])

\* destinations.population.sum()
RECURSIVE population_sum(_)
population_sum(dests) == IF Len(dests) = 0 THEN 0 ELSE dests[1][2] + population_sum(Tail(dests))

\* row 0 after sort_values(by='population', ascending=False): the first of
\* the destinations with the largest population
largest(dests) ==
    dests[CHOOSE i \in 1..Len(dests) :
            /\ \A j \in 1..Len(dests) : dests[j][2] <= dests[i][2]
            /\ \A j \in 1..(i - 1) : dests[j][2] < dests[i][2]]

\* whether the largest destination's share passes the threshold (guess.py:337)
ratio_accepts(ratio) == ratio_gt(ratio, threshold_ratio)

\* <<start, end, destination, ratio>>
parse_explanation(text) ==
    LET start == text.created
        has_nieuwe_naam == text.nieuwe_naam # None
        result_end == IF has_nieuwe_naam /\ text.ended = None THEN text.renamed ELSE text.ended
        destination0 == IF has_nieuwe_naam THEN text.nieuwe_naam ELSE None
        ratio0 == IF has_nieuwe_naam THEN ratio_of(100, 1) ELSE NoRatio
    IN IF result_end # None /\ str_le(match_year, Upto(result_end, 4))
       THEN <<start, result_end, None, NoRatio>>
       ELSE IF result_end # None /\ ~has_nieuwe_naam /\ Len(text.dests) > 0
       THEN IF Len(text.dests) = 1
            THEN <<start, result_end, text.dests[1][1], ratio_of(100, 1)>>
            ELSE LET top == largest(text.dests)
                     ratio == ratio_of(100 * top[2], population_sum(text.dests))
                 IN <<start, result_end,
                      IF ratio_accepts(ratio) THEN top[1] ELSE None, ratio>>
       ELSE <<start, result_end, destination0, ratio0>>

\* one pass of follow's for loop over the rows of the current code
RECURSIVE follow_rows(_, _)
follow_rows(rows, st) ==
    IF Len(rows) = 0 THEN st
    ELSE LET parsed == parse_explanation(rows[1].Toelichting)
             nw_code == parsed[3]
             nw_ratio == parsed[4]
         IN IF nw_code # None
            THEN LET ratio == ratio_mul(st.ratio, nw_ratio) IN
                 IF ratio_gt(ratio, threshold_ratio)
                 THEN follow_rows(Tail(rows), [nw_code |-> nw_code, gm_code |-> nw_code, ratio |-> ratio])
                 ELSE follow_rows(Tail(rows), [nw_code |-> None, gm_code |-> None, ratio |-> ratio])
            ELSE follow_rows(Tail(rows), [st EXCEPT !.nw_code = None])

\* one test of "while nw_code" with the body it guards; done when the loop
\* is left
follow_step(st, table) ==
    IF st.nw_code = None THEN [done |-> TRUE, st |-> st]
    ELSE LET mask(row) == row.Gemeentecode = st.gm_code
             rows == SelectSeq(table, mask)
         IN IF Len(rows) = 0 THEN [done |-> TRUE, st |-> st]
            ELSE [done |-> FALSE, st |-> follow_rows(rows, st)]

RECURSIVE follow_loop(_, _)
follow_loop(st, table) ==
    LET s == follow_step(st, table)
    IN IF s.done THEN <<s.st.gm_code, s.st.ratio>> ELSE follow_loop(s.st, table)

\* <<gm_code, ratio>>
follow(gm_code, ratio, table) ==
    follow_loop([nw_code |-> gm_code, gm_code |-> gm_code, ratio |-> ratio], table)

PROV_ABBRS == << <<"CPR", "Centraal persoonsregister">>, <<"Drostambt", None>>,
                 <<"F.", "Friesland">>, <<"Gld.", "Gelderland">>, <<"Gr.", "Groningen">>,
                 <<"L.", "Limburg">>, <<"NB.", "Noord-Brabant">>, <<"NH.", "Noord-Holland">>,
                 <<"O.", "Overijssel">>, <<"Schouwen-Duivenland", "Zeeland">>,
                 <<"U.", "Utrecht">>, <<"Walcheren", "Zeeland">>, <<"Z.", "Zeeland">>,
                 <<"ZH.", "Zuid-Holland">>, <<"gemeente", None>>, <<"oud", None>> >>

\* position of the first occurrence of p in s, 0 when there is none
find(s, p) ==
    IF contains(s, p)
    THEN CHOOSE i \in 1..(Len(s) + 1) : MatchAt(s, p, i) /\ \A j \in 1..(i - 1) : ~MatchAt(s, p, j)
    ELSE 0

\* extract_province(name)[1]: re.findall(NAME_PROV, name)[0] gives the text
\* between the first " (" and the next ")" (names of the tables have both
\* whenever they have a ")")
extract_province(name) ==
    IF contains(name, ")")
    THEN LET open == find(name, " (")
             rest == From(name, open + 2)
             prov == Upto(rest, find(rest, ")") - 1)
         IN IF dict_has(PROV_ABBRS, prov) THEN dict_get(PROV_ABBRS, prov) ELSE prov
    ELSE None

\* dict(zip(Gemeentecode, Naam)); code_to_name[None] = None
RECURSIVE code_to_name_acc(_, _)
code_to_name_acc(table, d) ==
    IF Len(table) = 0 THEN d
    ELSE code_to_name_acc(Tail(table), dict_set(d, table[1].Gemeentecode, table[1].Naam))

code_to_name(table) == dict_set(code_to_name_acc(table, <<>>), None, None)

\* (since <= match_year or since is NaN) and (until < match_year or until is NaN)
cbs_mask(row) ==
    /\ row.since = None \/ str_le(row.since, match_year)
    /\ row.until = None \/ (str_le(row.until, match_year) /\ row.until # match_year)

parse_muni_history_cbs(raw) ==
    LET names == code_to_name(raw)
        parsed == [i \in 1..Len(raw) |->
                    LET e == parse_explanation(raw[i].Toelichting) IN
                    [Gemeentecode |-> raw[i].Gemeentecode,
                     Naam |-> strip(raw[i].Naam),
                     name_cleaned |-> strip(lower(str_replace(raw[i].Naam, " (gemeente)", ""))),
                     Toelichting |-> raw[i].Toelichting,
                     since |-> e[1], until |-> e[2],
                     destination |-> e[3], ratio0 |-> e[4]]]
        kept == SelectSeq(parsed, cbs_mask)
        done == [i \in 1..Len(kept) |->
                    LET f == follow(kept[i].destination, kept[i].ratio0, kept)
                    IN [Gemeentecode |-> kept[i].Gemeentecode,
                        Naam |-> kept[i].Naam,
                        name_cleaned |-> kept[i].name_cleaned,
                        Toelichting |-> kept[i].Toelichting,
                        since |-> kept[i].since, until |-> kept[i].until,
                        province |-> extract_province(kept[i].Naam),
                        current_gm_code |-> f[1],
                        current_gm_name |-> dict_get(names, f[1]),
                        ratio |-> f[2]]]
        dissolved(row) == row.until # None
    IN SelectSeq(done, dissolved)

(***************************************************************************)
(* Historical Chain Resolver, encyclopedia chain: datestr_from_nl,         *)
(* follow_wiki, parse_muni_history_wiki                                    *)
(***************************************************************************)
RECURSIVE concat_reversed(_)
concat_reversed(items) ==
    IF Len(items) = 0 THEN "" ELSE concat_reversed(Tail(items)) \o items[1]

\* dd-mm-yyyy -> yyyymmdd
datestr_from_nl(datestr) ==
    IF datestr = None \/ datestr = "?" THEN None
    ELSE concat_reversed(split(datestr, "-"))

\* x.split('(')[0].strip().lower()
name_before_paren(x) == lower(strip(split(x, "(")[1]))

\* one pass of the body of "while True"; done when it breaks
follow_wiki_step(gm_name0, table, since) ==
    LET gm_name == str_replace(gm_name0, " (naamswijziging)", "")
        name_cleaned == name_before_paren(gm_name)
        mask(row) ==
            /\ row.name_cleaned = name_cleaned
            /\ row.Opgegaan_in # None
            /\ (since # None /\ since # "")
                   => (row.until = None \/ str_le(since, row.until))
        rows == SelectSeq(table, mask)
    IN IF Len(rows) # 1 THEN [done |-> TRUE, gm_name |-> gm_name, since |-> since]
       ELSE LET nw_name == rows[1].Opgegaan_in
                until == rows[1].until
            IN IF name_before_paren(nw_name) = name_cleaned
               THEN [done |-> TRUE, gm_name |-> gm_name, since |-> since]
               ELSE [done |-> until = None, gm_name |-> nw_name, since |-> until]

RECURSIVE follow_wiki_loop(_, _, _)
follow_wiki_loop(gm_name0, table, since) ==
    LET s == follow_wiki_step(gm_name0, table, since)
    IN IF s.done THEN s.gm_name ELSE follow_wiki_loop(s.gm_name, table, s.since)

follow_wiki(gm_name, table, since) ==
    IF gm_name = None THEN None ELSE follow_wiki_loop(gm_name, table, since)

\* [variant.strip() for variant in x.lower().split(';')]
RECURSIVE strip_each(_)
strip_each(l) == IF Len(l) = 0 THEN <<>> ELSE <<strip(l[1])>> \o strip_each(Tail(l))

\* (since <= match_year or since is NaN) and 'Opgegaan in' names one successor
wiki_mask(row) ==
    /\ row.since = None \/ str_le(row.since, match_year)
    /\ row.Opgegaan_in = None \/ ~contains(row.Opgegaan_in, ";")

parse_muni_history_wiki(raw) ==
    LET parsed == [i \in 1..Len(raw) |->
                    [code |-> raw[i].code,
                     Gemeente |-> raw[i].Gemeente,
                     Opgegaan_in |-> raw[i].Opgegaan_in,
                     province |-> lower(strip(str_replace(split(raw[i].Provincie, "[")[1],
                                                          "Friesland", "Fryslân"))),
                     name_cleaned |-> name_before_paren(raw[i].Gemeente),
                     variants |-> IF raw[i].Alternatieve_namen = None THEN <<>>
                                  ELSE strip_each(split(lower(raw[i].Alternatieve_namen), ";")),
                     since |-> datestr_from_nl(raw[i].Bestaan_vanaf),
                     until |-> datestr_from_nl(raw[i].Bestaan_tot)]]
        kept == SelectSeq(parsed, wiki_mask)
    IN [i \in 1..Len(kept) |->
          [code |-> kept[i].code,
           Gemeente |-> kept[i].Gemeente,
           Opgegaan_in |-> kept[i].Opgegaan_in,
           province |-> kept[i].province,
           name_cleaned |-> kept[i].name_cleaned,
           variants |-> kept[i].variants,
           since |-> kept[i].since,
           until |-> kept[i].until,
           latest_gm_name |-> follow_wiki(kept[i].Opgegaan_in, kept, kept[i].until)]]

(***************************************************************************)
(* Scoped Index Builder: get_config                                        *)
(***************************************************************************)
\* list(column).count(x) == 1
count_by(table, col, x) == Cardinality({i \in 1..Len(table) : table[i][col] = x})

\* {k.lower(): v for k, v in zip(keycol, valcol) if list(keycol).count(k) == 1}
RECURSIVE unique_dict(_, _, _, _, _)
unique_dict(table, keycol, valcol, i, d) ==
    IF i > Len(table) THEN d
    ELSE unique_dict(table, keycol, valcol, i + 1,
                     IF count_by(table, keycol, table[i][keycol]) = 1
                     THEN dict_set(d, lower(table[i][keycol]), table[i][valcol])
                     ELSE d)

\* {gm.lower(): gm for gm in set(Naam_2)}, then the recode table on top.
\* (A Python set has no fixed order; the order of first appearance is used.)
RECURSIVE gm_dict(_, _, _)
gm_dict(table, i, d) ==
    IF i > Len(table) THEN d
    ELSE gm_dict(table, i + 1, dict_set(d, lower(table[i].Naam_2), table[i].Naam_2))

RECURSIVE dict_update(_, _)
dict_update(d, extra) ==
    IF Len(extra) = 0 THEN d
    ELSE dict_update(dict_set(d, extra[1][1], extra[1][2]), Tail(extra))

\* whether the recode table is injected into a scope's municipality dict
\* (guess.py:503-504 and 519-520); recode_gem defaults to RECODE_GEM
recode_gem == RECODE_GEM

gm_scope(subset) == dict_update(gm_dict(subset, 1, <<>>), recode_gem)

\* a province's scope built from the whole table
wp_subset_whole(table, province) == table

\* the rows of wp_table (kwb_table) of one province
wp_subset(table, province) ==
    LET mask(row) == row.Naam_4 = province IN SelectSeq(table, mask)

kwb_subset(table, province) ==
    LET mask(row) == row.province = province IN SelectSeq(table, mask)

\* gem_prov and the province column of kwb_table, rows Wijk/Buurt only
kwb_with_province(wp_table, kwb_table) ==
    LET gem_prov == [g \in {lower(wp_table[i].Naam_2) : i \in 1..Len(wp_table)} |->
                        wp_table[CHOOSE i \in 1..Len(wp_table) :
                                    /\ lower(wp_table[i].Naam_2) = g
                                    /\ \A j \in (i + 1)..Len(wp_table) :
                                          lower(wp_table[j].Naam_2) # g].Naam_4]
        mask_kwb(row) == row.SoortRegio_2 \in {"Wijk", "Buurt"}
        rows == SelectSeq(kwb_table, mask_kwb)
    IN [i \in 1..Len(rows) |->
          [WijkenEnBuurten |-> rows[i].WijkenEnBuurten,
           Gemeentenaam_1 |-> rows[i].Gemeentenaam_1,
           province |-> IF lower(rows[i].Gemeentenaam_1) \in DOMAIN gem_prov
                        THEN gem_prov[lower(rows[i].Gemeentenaam_1)] ELSE None]]

provinces_of(wp_table) == {wp_table[i].Naam_4 : i \in 1..Len(wp_table)}

province_named(wp_table, key) ==
    CHOOSE p \in provinces_of(wp_table) : lower(p) = key

scope_keys(wp_table) == {"any"} \cup {lower(p) : p \in provinces_of(wp_table)}

\* the three indexes get_config returns, each a function from scope key
\* ("any" or a lower-cased province) to an ordered dict
config_wp(wp_table) ==
    [key \in scope_keys(wp_table) |->
        IF key = "any" THEN unique_dict(wp_table, "Woonplaatsen", "Naam_2", 1, <<>>)
        ELSE unique_dict(wp_subset(wp_table, province_named(wp_table, key)),
                         "Woonplaatsen", "Naam_2", 1, <<>>)]

config_gm(wp_table) ==
    [key \in scope_keys(wp_table) |->
        IF key = "any" THEN gm_scope(wp_table)
        ELSE gm_scope(wp_subset(wp_table, province_named(wp_table, key)))]

config_wb(wp_table, kwb_table) ==
    LET kwb == kwb_with_province(wp_table, kwb_table) IN
    [key \in scope_keys(wp_table) |->
        IF key = "any" THEN unique_dict(kwb, "WijkenEnBuurten", "Gemeentenaam_1", 1, <<>>)
        ELSE unique_dict(kwb_subset(kwb, province_named(wp_table, key)),
                         "WijkenEnBuurten", "Gemeentenaam_1", 1, <<>>)]

\* self.replace: the constructor's replace ({} by default) plus the area codes
config_replace(area_codes) == dict_update(<<>>, area_codes)

(***************************************************************************)
(* Historical lookup: filter_history, lookup_history                       *)
(***************************************************************************)
\* int(name) for a string of digits
RECURSIVE int_of(_, _)
int_of(s, acc) == IF Len(s) = 0 THEN acc ELSE int_of(From(s, 2), 10 * acc + digit_val(Ch(s, 1)))

\* "A'damse code[1]" in list(table.columns): only the encyclopedia table has it
has_adam_code(table) == Len(table) > 0 /\ "code" \in DOMAIN table[1]

\* table.since.fillna('00000000') <= date <= table.until.fillna('99999999')
valid_at(row, date) ==
    /\ str_le(IF row.since = None THEN "00000000" ELSE row.since, date)
    /\ str_le(date, IF row.until = None THEN "99999999" ELSE row.until)

\* the fuzzy branch (guess.py:591-598): the rows named like the best match
\* when its score reaches the threshold, else the subset as it is
fuzzy_subset(subset, name, threshold_fuzzy) ==
    IF Len(subset) = 0 THEN subset
    ELSE LET matched(m) ==
                 LET mask(row) == row.name_cleaned = m[1]
                 IN IF m[2] >= threshold_fuzzy THEN SelectSeq(subset, mask) ELSE subset
         IN matched(extractOne(name, [i \in 1..Len(subset) |-> subset[i].name_cleaned]))

filter_history(table, name, province0, date, fuzzy, check_variants, threshold_fuzzy) ==
    LET province == IF province0 = None THEN None ELSE lower(province0)
        in_date(row) == (date # None /\ date # "") => valid_at(row, date)
        in_province(row) ==
            (province # None /\ province # "") => (row.province = province \/ row.province = None)
        by_code(row) == row.code = int_of(name, 0)
        by_variant(row) == in_list(name, row.variants)
        by_name(row) == row.name_cleaned = name
        subset == SelectSeq(SelectSeq(table, in_date), in_province)
    IN IF isnumeric(name) /\ has_adam_code(table) THEN SelectSeq(table, by_code)
       ELSE IF check_variants THEN SelectSeq(subset, by_variant)
       ELSE IF ~fuzzy THEN SelectSeq(subset, by_name)
       ELSE fuzzy_subset(subset, name, threshold_fuzzy)

\* subset.drop_duplicates(subset=col): the first row of every value of col
drop_duplicates(subset, col) ==
    LET first(i) == \A j \in 1..(i - 1) : subset[j][col] # subset[i][col]
        idx == {i \in 1..Len(subset) : first(i)}
        RECURSIVE pick(_)
        pick(i) == IF i > Len(subset) THEN <<>>
                   ELSE (IF i \in idx THEN <<subset[i]>> ELSE <<>>) \o pick(i + 1)
    IN pick(1)

\* a subset accepted whenever it is not empty
single_candidate_or_more(subset) == Len(subset) >= 1

\* whether a de-duplicated subset is accepted (guess.py:624 and 635)
single_candidate(subset) == Len(subset) = 1

\* the encyclopedia candidates of a lookup, de-duplicated by resolved target
wiki_candidates(self, name, province, date, fuzzy, check_variants, threshold_fuzzy) ==
    LET retry(subset) ==
            IF Len(subset) = 0 /\ check_variants
            THEN filter_history(self.muni_history_wiki, name, province, date, fuzzy,
                                TRUE, threshold_fuzzy)
            ELSE subset
    IN drop_duplicates(retry(filter_history(self.muni_history_wiki, name, province, date,
                                            fuzzy, FALSE, threshold_fuzzy)),
                       "latest_gm_name")

\* the register candidates, de-duplicated by resolved target: looked up
\* with the name and date the encyclopedia step leaves behind, subset
\* being that step's candidates
cbs_candidates(self, subset, name, province, date, fuzzy, threshold_fuzzy) ==
    LET filtered(one) ==
            filter_history(self.muni_history_cbs,
                           IF one THEN lower(subset[Len(subset)].latest_gm_name) ELSE name,
                           province,
                           IF one THEN subset[Len(subset)].until ELSE date,
                           fuzzy, FALSE, threshold_fuzzy)
    IN drop_duplicates(filtered(single_candidate(subset)), "current_gm_name")

\* what the encyclopedia step and the register step leave in gm_name
wiki_result(subset) ==
    IF single_candidate(subset) THEN subset[Len(subset)].latest_gm_name ELSE None

\* a register step that speaks only when the encyclopedia step found nothing
cbs_result_when_absent(subset2, gm_name) ==
    IF gm_name = None /\ single_candidate(subset2)
    THEN subset2[Len(subset2)].current_gm_name ELSE gm_name

cbs_result(subset2, gm_name) ==
    IF single_candidate(subset2) THEN subset2[Len(subset2)].current_gm_name ELSE gm_name

\* the locals of lookup_history at its return (guess.py:612-638)
lookup_history_locals(self, name, province, date, fuzzy, check_variants, threshold_fuzzy) ==
    LET at_return(subset, subset2) ==
            [subset |-> subset, subset2 |-> subset2,
             gm_name |-> cbs_result(subset2, wiki_result(subset))]
        after_wiki(subset) ==
            at_return(subset, cbs_candidates(self, subset, name, province, date, fuzzy,
                                             threshold_fuzzy))
    IN after_wiki(wiki_candidates(self, name, province, date, fuzzy, check_variants,
                                  threshold_fuzzy))

lookup_history(self, name, province, date, fuzzy, check_variants, threshold_fuzzy) ==
    lookup_history_locals(self, name, province, date, fuzzy, check_variants,
                          threshold_fuzzy).gm_name

(***************************************************************************)
(* Resolution Orchestrator: guess                                          *)
(*                                                                         *)
(* The arguments of a call are a record a with the parameters' names.      *)
(* a.location_name is [type, v]: type "str" (v the string), "int" or       *)
(* "float" (v the digits of an integral value), "other" (any other         *)
(* object, such as None or a float with a fraction).                       *)
(***************************************************************************)
\* self.threshold_fuzzy of the engine under study
threshold_fuzzy_default == THRESHOLD_FUZZY

\* guess.py:695-705: the fuzzy flags after subordination
\* guess without its lines 695-696
effective_history_fuzzy_unsubordinated(a) == a.check_fuzzy /\ a.check_history_fuzzy

effective_history_fuzzy(a) == a.check_history /\ a.check_fuzzy /\ a.check_history_fuzzy
effective_wp_fuzzy(a) == a.check_wp /\ a.check_fuzzy /\ a.check_wp_fuzzy
effective_wb_fuzzy(a) == a.check_wb /\ a.check_fuzzy /\ a.check_wb_fuzzy
effective_gm_fuzzy(a) == a.check_fuzzy /\ a.check_gm_fuzzy

\* guess.py:706-707 (0 and None are both "not threshold_fuzzy")
effective_threshold(a) ==
    IF a.threshold_fuzzy = 0 THEN threshold_fuzzy_default ELSE a.threshold_fuzzy

\* guess.py:709-713: the locals but return_how and self, after the lines
\* above. Python compares 5 and 5.0 equal (and hashes them alike), so an
\* integral float and the int of the same value give the same key.
params_key(a) ==
    <<IF a.location_name.type = "float" THEN [type |-> "int", v |-> a.location_name.v]
      ELSE a.location_name,
      a.clean, a.check_history, a.check_variants, a.check_wp, a.check_wb,
      effective_gm_fuzzy(a), a.check_fuzzy, effective_history_fuzzy(a),
      effective_wp_fuzzy(a), effective_wb_fuzzy(a),
      a.province, a.date, a.delimiters, effective_threshold(a)>>

\* guess without its line 741: the unrecognized province still handed to
\* lookup_history
resolve_scope_keeps_province(self, province0) ==
    IF province0 # None /\ province0 # ""
    THEN LET p1 == strip(province0)
             p2 == IF lower(p1) = "friesland" THEN "Fryslân" ELSE p1
         IN IF lower(p2) \in DOMAIN self.wp THEN <<lower(p2), p2>> ELSE <<"any", p2>>
    ELSE <<"any", province0>>

\* guess.py:733-742: <<key, province>>
resolve_scope(self, province0) ==
    IF province0 # None /\ province0 # ""
    THEN LET p1 == strip(province0)
             p2 == IF lower(p1) = "friesland" THEN "Fryslân" ELSE p1
         IN IF lower(p2) \in DOMAIN self.wp THEN <<lower(p2), p2>> ELSE <<"any", None>>
    ELSE <<"any", province0>>

RECURSIVE clean_each(_, _)
clean_each(self, subs) ==
    IF Len(subs) = 0 THEN <<>> ELSE <<clean(self, subs[1])>> \o clean_each(self, Tail(subs))

more_than_one_char(sub) == Len(sub) > 1

\* The eight tiers, by the method tag each returns
TIERS == <<"gm", "history", "wp", "wb", "gm_fuzzy", "history_fuzzy", "wp_fuzzy", "wb_fuzzy">>

\* the blocks of the exact historical and place tiers in each other's place
tier_order_swapped ==
    <<"gm", "wp", "history", "wb", "gm_fuzzy", "history_fuzzy", "wp_fuzzy", "wb_fuzzy">>

\* the order in which guess runs them (guess.py:752-832)
tier_order == TIERS

\* whether guess enters a tier's block (the if before each block)
tier_enabled(t, a) ==
    CASE t = "gm" -> TRUE
      [] t = "history" -> a.check_history
      [] t = "wp" -> a.check_wp
      [] t = "wb" -> a.check_wb
      [] t = "gm_fuzzy" -> effective_gm_fuzzy(a)
      [] t = "history_fuzzy" -> effective_history_fuzzy(a)
      [] t = "wp_fuzzy" -> effective_wp_fuzzy(a)
      [] t = "wb_fuzzy" -> effective_wb_fuzzy(a)

TypeError == "<TypeError>"
AttributeError == "<AttributeError>"

\* a fuzzy index tier on one substring: the value of the best key when
\* its score reaches the threshold; unpacking None raises TypeError
fuzzy_index(d, substring, threshold) ==
    LET unpack(m) ==
            IF m = NoMatch THEN TypeError
            ELSE IF m[2] >= threshold THEN dict_get(d, m[1]) ELSE None
    IN unpack(extractOne(substring, dict_keys(d)))

exact_index(d, substring) == IF dict_has(d, substring) THEN dict_get(d, substring) ELSE None

\* what one tier finds for one substring: a name, None, or an exception.
\* c holds the call's key (scope), province, date, check_variants, threshold
tier_probe(self, t, substring, c) ==
    LET index == CASE t \in {"gm", "gm_fuzzy"} -> self.gm[c.key]
                   [] t \in {"wp", "wp_fuzzy"} -> self.wp[c.key]
                   [] t \in {"wb", "wb_fuzzy"} -> self.wb[c.key]
    IN CASE t \in {"history", "history_fuzzy"} ->
                lookup_history(self, substring, c.province, c.date, t = "history_fuzzy",
                               c.check_variants, c.threshold_fuzzy)
         [] t \in {"gm", "wp", "wb"} -> exact_index(index, substring)
         [] t \in {"gm_fuzzy", "wp_fuzzy", "wb_fuzzy"} ->
                fuzzy_index(index, substring, c.threshold_fuzzy)

\* "if result:" - a name that is neither None nor empty
truthy(result) == result # None /\ result # ""

SPECIAL == <<"Bergen (NH.)", "Bergen (L.)">>

\* what a call does: status "returned" or "raised" (value the exception),
\* the value and method returned (how is what return_how=True adds),
\* the cache entry written (NoMatch: none), and the number of tier
\* lookups made
Outcome(status, value, how, stored, lookups) ==
    [status |-> status, value |-> value, how |-> how, stored |-> stored, lookups |-> lookups]

\* every block storing the first block's tag
stored_tag_of_first_block(t) == "gm_prev"

\* the method tag stored with a tier's hit
stored_tag(t) == t \o "_prev"

\* a call that ends without a match and leaves nothing in the cache
no_match_unrecorded == NoMatch

\* guess.py:833: the entry written when no tier has a match
no_match_entry == <<None, "no_match_found">>

\* one tier's loop over the substrings, from substring i on; n counts the
\* lookups made so far. The first block also holds the special-case return.
RECURSIVE tier_loop(_, _, _, _, _, _, _)
\* the blocks from tier number k on
RECURSIVE cascade(_, _, _, _, _, _)

tier_loop(self, a, c, substrings, k, i, n) ==
    LET t == tier_order[k] IN
    IF i > Len(substrings) THEN cascade(self, a, c, substrings, k + 1, n)
    ELSE IF t = "gm" /\ in_list(substrings[i], SPECIAL)
    THEN Outcome("returned", substrings[i], "special", NoMatch, n)
    ELSE LET found(result) ==
                 IF result = TypeError THEN Outcome("raised", TypeError, None, NoMatch, n + 1)
                 ELSE IF truthy(result)
                 THEN Outcome("returned", result, t, <<result, stored_tag(t)>>, n + 1)
                 ELSE tier_loop(self, a, c, substrings, k, i + 1, n + 1)
         IN found(tier_probe(self, t, substrings[i], c))

cascade(self, a, c, substrings, k, n) ==
    IF k > Len(tier_order)
    THEN Outcome("returned", None, "no_match_found", no_match_entry, n)
    ELSE IF tier_enabled(tier_order[k], a) THEN tier_loop(self, a, c, substrings, k, 1, n)
    ELSE cascade(self, a, c, substrings, k + 1, n)

\* whether the attribute self.delimiters exists: __init__ (guess.py:65-123)
\* never sets it, and the class has no such attribute
has_delimiters_attribute == FALSE

RECURSIVE replace_delimiters(_, _)
replace_delimiters(s, dlms) ==
    IF Len(dlms) = 0 THEN s ELSE replace_delimiters(str_replace(s, dlms[1], ","), Tail(dlms))

\* guess.py:733-742 and the arguments the tiers read: the scope key, the
\* province handed to lookup_history, date, check_variants, the threshold
context(self, a) ==
    LET in_scope(scope) ==
            [key |-> scope[1], province |-> scope[2], date |-> a.date,
             check_variants |-> a.check_variants, threshold_fuzzy |-> effective_threshold(a)]
    IN in_scope(resolve_scope(self, a.province))

\* guess.py:732 and 743-750: the lower-cased input, split when delimiters
\* is given, every piece cleaned when clean is
substrings_of(self, a) ==
    LET cleaned(split0) == IF a.clean THEN clean_each(self, split0) ELSE split0
    IN cleaned(IF a.delimiters
               THEN split(replace_delimiters(lower(a.location_name.v), DELIMITERS), ",")
               ELSE <<lower(a.location_name.v)>>)

\* guess.py:751: the substrings the tiers see
surviving(substrings) == SelectSeq(substrings, more_than_one_char)

\* guess.py:721-836: the call when the cache has no entry for its key
guess_uncached(self, a) ==
    IF a.location_name.type = "other" THEN Outcome("returned", None, None, NoMatch, 0)
    ELSE
    LET run_tiers(substrings) ==
            IF in_list(None, substrings) THEN Outcome("raised", TypeError, None, NoMatch, 0)
            ELSE cascade(self, a, context(self, a), surviving(substrings), 1, 0)
    IN IF a.delimiters /\ ~has_delimiters_attribute
       THEN Outcome("raised", AttributeError, None, NoMatch, 0)
       ELSE run_tiers(substrings_of(self, a))

(***************************************************************************)
(* The engine and its calls                                                *)
(***************************************************************************)
\* the object __init__ builds from the reference tables (guess.py:93-123)
Engine ==
    [gm |-> config_gm(WP_TABLE),
     wp |-> config_wp(WP_TABLE),
     wb |-> config_wb(WP_TABLE, KWB_TABLE),
     replace |-> config_replace(AREA_CODES),
     muni_history_wiki |-> parse_muni_history_wiki(WIKI_TABLE),
     muni_history_cbs |-> parse_muni_history_cbs(CBS_TABLE)]

\* self, as the methods read it
Self ==
    [gm |-> gm, wp |-> wp, wb |-> wb, replace |-> replace,
     muni_history_wiki |-> muni_history_wiki, muni_history_cbs |-> muni_history_cbs]

StrName(v) == [type |-> "str", v |-> v]
IntName(v) == [type |-> "int", v |-> v]
FloatName(v) == [type |-> "float", v |-> v]
OtherName == [type |-> "other", v |-> ""]

\* guess(location_name) with the default arguments (guess.py:641-658);
\* threshold_fuzzy 0 stands for None
Defaults(location_name) ==
    [location_name |-> location_name, clean |-> TRUE, check_history |-> TRUE,
     check_variants |-> TRUE, check_wp |-> TRUE, check_wb |-> TRUE,
     check_gm_fuzzy |-> TRUE, check_fuzzy |-> TRUE, check_history_fuzzy |-> TRUE,
     check_wp_fuzzy |-> TRUE, check_wb_fuzzy |-> TRUE, province |-> None, date |-> None,
     delimiters |-> FALSE, return_how |-> FALSE, threshold_fuzzy |-> 0]

\* a call of guess with one argument changed
With(a, field, value) == [a EXCEPT ![field] = value]

\* The calls of the caching specification: every input with the default
\* arguments, bare and with return_how; numeric and non-string inputs;
\* delimiter splitting; a province, a date and switched-off tiers for the
\* inputs they matter to.
DefaultCalls == {Defaults(StrName(INPUTS[i])) : i \in 1..Len(INPUTS)}

OddCalls ==
    {Defaults(IntName("10631")), Defaults(FloatName("10631")), Defaults(OtherName),
     With(Defaults(StrName("venlo|hollum")), "delimiters", TRUE),
     With(Defaults(StrName("hollum")), "province", "Limburg"),
     With(Defaults(StrName("hollum")), "province", "Atlantis"),
     With(Defaults(StrName("beek")), "date", "1900"),
     With(Defaults(StrName("venloo")), "check_fuzzy", FALSE),
     With(Defaults(StrName("venloo")), "threshold_fuzzy", 95),
     With(Defaults(StrName("tegelen")), "check_history", FALSE),
     With(With(Defaults(StrName("tegelem")), "check_history", FALSE), "check_history_fuzzy", FALSE),
     With(Defaults(StrName("onbekend")), "clean", FALSE)}

Calls ==
    LET bare == DefaultCalls \cup OddCalls
    IN bare \cup {With(a, "return_how", TRUE) : a \in bare}

\* guess_uncached on the engine as built, computed once per call
guess_table == [a \in Calls |-> guess_uncached(Engine, a)]

run_guess(self, a) ==
    IF a \in Calls /\ self = Engine THEN guess_table[a] ELSE guess_uncached(self, a)

\* number of calls the caching specification makes
MaxCalls == 2

NotCalled == [op |-> "none"]

Init ==
    /\ \E self \in {Engine} :
         /\ gm = self.gm
         /\ wp = self.wp
         /\ wb = self.wb
         /\ replace = self.replace
         /\ muni_history_wiki = self.muni_history_wiki
         /\ muni_history_cbs = self.muni_history_cbs
    /\ found_results = <<>>
    /\ args = NotCalled
    /\ ret = NotCalled
    /\ ncalls = 0
    /\ log = <<>>

\* a cache that is written and never read
cache_never_hit(cache, key) == FALSE

\* guess.py:715: if params_key in self.found_results
cache_hit(cache, key) == key \in DOMAIN cache

\* what a call of guess(a) does on the engine with cache `cache`
\* (guess.py:695-836): the outcome and the cache it leaves
\* a cache that holds the latest result only
record_result_alone(cache, key, stored) == [k \in {key} |-> stored]

\* self.found_results[params_key] = result, '<tier>_prev'
record_result(cache, key, stored) ==
    [k \in DOMAIN cache \cup {key} |-> IF k = key THEN stored ELSE cache[k]]

guess(self, cache, a) ==
    LET key == params_key(a)
        computed(o) ==
            [outcome |-> o, cached |-> FALSE,
             cache |-> IF o.stored = NoMatch THEN cache
                       ELSE record_result(cache, key, o.stored)]
    IN IF cache_hit(cache, key)
       THEN [outcome |-> Outcome("returned", cache[key][1], cache[key][2], NoMatch, 0),
             cached |-> TRUE, cache |-> cache]
       ELSE computed(run_guess(self, a))

\* what the caller sees of a call: value alone, or <<value, how>> when
\* return_how is given
Returned(g) ==
    [op |-> "guess", status |-> g.outcome.status, value |-> g.outcome.value,
     how |-> g.outcome.how, cached |-> g.cached, lookups |-> g.outcome.lookups]

Call(a) ==
    /\ \E g \in {guess(Self, found_results, a)} :
         /\ found_results' = g.cache
         /\ ret' = Returned(g)
         /\ log' = Append(log, [args |-> a, ret |-> Returned(g)])
    /\ args' = a
    /\ ncalls' = ncalls + 1
    /\ UNCHANGED <<gm, wp, wb, replace, muni_history_wiki, muni_history_cbs>>

\* a call of guess on an engine that may have answered calls before
Guess(a) == ncalls < MaxCalls /\ Call(a)

Next == \E a \in Calls : Guess(a)

Spec == Init /\ [][Next]_vars

(***************************************************************************)
(* One call on a fresh engine, over every combination of the tier flags.   *)
(***************************************************************************)
WIDE_INPUTS == <<"Venlo", "tegelen", "hollum", "blerick", "venloo", "tegelem", "holum",
                 "blerik", "den haag", "buren", "beek", "belveld", "xyzzy jkl", "Bergen NH",
                 "onbekend">>

PROVINCES == {"Limburg", " friesland", "Atlantis"}

Flags(a, history, place, hood, fuzzy, f) ==
    [a EXCEPT !.check_history = history, !.check_wp = place, !.check_wb = hood,
              !.check_fuzzy = fuzzy, !.check_gm_fuzzy = f[1], !.check_history_fuzzy = f[2],
              !.check_wp_fuzzy = f[3], !.check_wb_fuzzy = f[4]]

\* every input with every combination of the eight flags, and with every
\* province under every combination of the four that the others depend on
WideCalls ==
    {Flags(Defaults(StrName(WIDE_INPUTS[i])), h[1], h[2], h[3], h[4], f) :
        i \in 1..Len(WIDE_INPUTS),
        h \in BOOLEAN \X BOOLEAN \X BOOLEAN \X BOOLEAN,
        f \in BOOLEAN \X BOOLEAN \X BOOLEAN \X BOOLEAN}
    \cup
    {Flags(With(Defaults(StrName(WIDE_INPUTS[i])), "province", p), h[1], h[2], h[3], h[4],
           <<TRUE, TRUE, TRUE, TRUE>>) :
        i \in 1..Len(WIDE_INPUTS), p \in PROVINCES,
        h \in BOOLEAN \X BOOLEAN \X BOOLEAN \X BOOLEAN}

\* the first call of guess on an engine
GuessFresh(a) == ncalls = 0 /\ Call(a)

NextFresh == \E a \in WideCalls : GuessFresh(a)

SpecFresh == Init /\ [][NextFresh]_vars

(***************************************************************************)
(* parse_explanation on the explanations of dissolved register records.    *)
(***************************************************************************)
\* largest population figure on a destination line
MaxPop == 5

\* codes on the destination lines, in the order of the lines
DEST_CODES == <<"GM0983", "GM0060", "GM0214">>

\* one to three destination lines with every population figure
DestinationLists ==
    UNION {{[i \in 1..n |-> <<DEST_CODES[i], pop[i]>>] : pop \in [1..n -> 1..MaxPop]} :
            n \in 1..Len(DEST_CODES)}

\* "Opgeheven per ..., overgegaan naar:" with its destination lines, before
\* and after match_year; a record with no change; a change of name
Explanations ==
    {Toelichting(None, ended, None, None, dests) :
        ended \in {"19820101", "20230101"}, dests \in DestinationLists}
    \cup {Toelichting("18110101", None, None, None, <<>>),
          Toelichting(None, None, "19400101", "GM0983", <<>>)}

ParseExplanation(text) ==
    /\ ncalls = 0
    /\ \E parsed \in {parse_explanation(text)} :
         ret' = [op |-> "parse_explanation", start |-> parsed[1], end |-> parsed[2],
                 destination |-> parsed[3], ratio |-> parsed[4]]
    /\ args' = [op |-> "parse_explanation", text |-> text]
    /\ ncalls' = ncalls + 1
    /\ UNCHANGED <<gm, wp, wb, replace, muni_history_wiki, muni_history_cbs,
                   found_results, log>>

NextRatio == \E text \in Explanations : ParseExplanation(text)

SpecRatio == Init /\ [][NextRatio]_vars

(***************************************************************************)
(* lookup_history on the engine as built.                                  *)
(***************************************************************************)
HISTORY_NAMES == {"venlo", "tegelen", "tegelem", "beek", "belveld", "bergh", "wehl",
                  "nieuw-wehl", "10631", "ballum", "well (l.)", "venlo en blerick",
                  "hollum"}

HISTORY_PROVINCES == {None, "Limburg", "gelderland"}

HISTORY_DATES == {None, "1900", "19500101", "2020"}

HistoryCalls ==
    {[name |-> name, province |-> province, date |-> date, fuzzy |-> fuzzy,
      check_variants |-> check_variants, threshold_fuzzy |-> threshold_fuzzy_default] :
        name \in HISTORY_NAMES, province \in HISTORY_PROVINCES, date \in HISTORY_DATES,
        fuzzy \in BOOLEAN, check_variants \in BOOLEAN}

LookupHistory(h) ==
    /\ ncalls = 0
    /\ \E l \in {lookup_history_locals(Self, h.name, h.province, h.date, h.fuzzy,
                                        h.check_variants, h.threshold_fuzzy)} :
         ret' = [op |-> "lookup_history", value |-> l.gm_name,
                 subset |-> l.subset, subset2 |-> l.subset2]
    /\ args' = [op |-> "lookup_history", h |-> h]
    /\ ncalls' = ncalls + 1
    /\ UNCHANGED <<gm, wp, wb, replace, muni_history_wiki, muni_history_cbs,
                   found_results, log>>

NextHistory == \E h \in HistoryCalls : LookupHistory(h)

SpecHistory == Init /\ [][NextHistory]_vars

(***************************************************************************)
(* The two chain followers, one pass of their loops at a time, over        *)
(* historical tables of three records.                                     *)
(***************************************************************************)
MaxHops == 5

FOLLOW_CODES == <<"GM0001", "GM0002", "GM0003">>
FOLLOW_SUCCESSORS == {"GM0001", "GM0002", "GM0003", "GM0983"}
\* the share of the population that goes to the successor; the rest goes
\* to GM0060
FOLLOW_SHARES == {100, 90, 60}

\* "Opgeheven per 01-01-1970, overgegaan naar:" one destination, or two
follow_text(code, share) ==
    Toelichting(None, "19700101", None, None,
                IF share = 100 THEN << <<code, 100>> >>
                ELSE << <<code, share>>, <<"GM0060", 100 - share>> >>)

FollowTables ==
    {[i \in 1..Len(FOLLOW_CODES) |->
        [Gemeentecode |-> FOLLOW_CODES[i], Toelichting |-> follow_text(to[i], share[i])]] :
        to \in [1..Len(FOLLOW_CODES) -> FOLLOW_SUCCESSORS],
        share \in [1..Len(FOLLOW_CODES) -> FOLLOW_SHARES]}

\* parse_muni_history_cbs calls follow(destination, ratio, table) for a record
FollowStart(table, i) ==
    /\ ncalls = 0
    /\ \E e \in {parse_explanation(table[i].Toelichting)} :
         /\ args' = [op |-> "follow", table |-> table, gm_code |-> e[3], ratio |-> e[4]]
         /\ ret' = [op |-> "follow", status |-> "running", hops |-> 0,
                    st |-> [nw_code |-> e[3], gm_code |-> e[3], ratio |-> e[4]]]
    /\ ncalls' = ncalls + 1
    /\ UNCHANGED <<gm, wp, wb, replace, muni_history_wiki, muni_history_cbs,
                   found_results, log>>

\* one test of the while condition of follow with the body it guards;
\* hops counts the passes of the body
FollowStep ==
    /\ ret.op = "follow" /\ ret.status = "running"
    /\ ret.hops < MaxHops
    /\ \E s \in {follow_step(ret.st, args.table)} :
         ret' = [op |-> "follow",
                 status |-> IF s.done THEN "returned" ELSE "running",
                 hops |-> IF s.done THEN ret.hops ELSE ret.hops + 1,
                 st |-> s.st]
    /\ UNCHANGED <<gm, wp, wb, replace, muni_history_wiki, muni_history_cbs,
                   found_results, args, ncalls, log>>

WIKI_NAMES == <<"Beek", "Bergh", "Wehl">>
WIKI_SUCCESSORS == {"Beek", "Bergh", "Wehl", "Venlo"}
WIKI_UNTIL == {"19500101", "19600101"}

FollowWikiTables ==
    {[i \in 1..Len(WIKI_NAMES) |->
        [name_cleaned |-> lower(WIKI_NAMES[i]), Opgegaan_in |-> to[i], until |-> until[i]]] :
        to \in [1..Len(WIKI_NAMES) -> WIKI_SUCCESSORS],
        until \in [1..Len(WIKI_NAMES) -> WIKI_UNTIL]}

\* parse_muni_history_wiki calls follow_wiki(name, table, since) for a record
FollowWikiStart(table, i) ==
    /\ ncalls = 0
    /\ args' = [op |-> "follow_wiki", table |-> table,
                gm_name |-> table[i].Opgegaan_in, since |-> table[i].until]
    /\ ret' = [op |-> "follow_wiki", status |-> "running", hops |-> 0,
               gm_name |-> table[i].Opgegaan_in, since |-> table[i].until]
    /\ ncalls' = ncalls + 1
    /\ UNCHANGED <<gm, wp, wb, replace, muni_history_wiki, muni_history_cbs,
                   found_results, log>>

\* one pass of the body of follow_wiki's loop; hops counts the passes that
\* move on to a successor
FollowWikiStep ==
    /\ ret.op = "follow_wiki" /\ ret.status = "running"
    /\ ret.hops < MaxHops
    /\ \E s \in {follow_wiki_step(ret.gm_name, args.table, ret.since)} :
         ret' = [op |-> "follow_wiki",
                 status |-> IF s.done THEN "returned" ELSE "running",
                 hops |-> IF s.gm_name # str_replace(ret.gm_name, " (naamswijziging)", "")
                          THEN ret.hops + 1 ELSE ret.hops,
                 gm_name |-> s.gm_name, since |-> s.since]
    /\ UNCHANGED <<gm, wp, wb, replace, muni_history_wiki, muni_history_cbs,
                   found_results, args, ncalls, log>>

NextFollow ==
    \/ \E table \in FollowTables, i \in 1..Len(FOLLOW_CODES) : FollowStart(table, i)
    \/ FollowStep
    \/ \E table \in FollowWikiTables, i \in 1..Len(WIKI_NAMES) : FollowWikiStart(table, i)
    \/ FollowWikiStep

SpecFollow == Init /\ [][NextFollow]_vars

(***************************************************************************)
(* A call of guess, and then guess on the name it returned.                *)
(***************************************************************************)
\* the calls open to the caller: any call first, then the call with the
\* returned name, lower-cased, and default options
FeedbackCalls ==
    IF ncalls = 0 THEN Calls
    ELSE IF ret.op = "guess" /\ ret.status = "returned" /\ ret.value # None
    THEN {Defaults(StrName(lower(ret.value)))}
    ELSE {}

GuessAgain(a) == ncalls < 2 /\ Call(a)

NextAgain == \E a \in FeedbackCalls : GuessAgain(a)

SpecAgain == Init /\ [][NextAgain]_vars

(***************************************************************************)
(* Properties                                                              *)
(***************************************************************************)
\* the tiers in the order the specification gives them
CLAIMED_ORDER == <<"gm", "history", "wp", "wb",
                   "gm_fuzzy", "history_fuzzy", "wp_fuzzy", "wb_fuzzy">>

Tags == {CLAIMED_ORDER[k] : k \in 1..Len(CLAIMED_ORDER)}

\* whether the caller's flags, as passed, leave a tier enabled
claimed_enabled(t, a) ==
    CASE t = "gm" -> TRUE
      [] t = "history" -> a.check_history
      [] t = "wp" -> a.check_wp
      [] t = "wb" -> a.check_wb
      [] t = "gm_fuzzy" -> a.check_fuzzy /\ a.check_gm_fuzzy
      [] t = "history_fuzzy" -> a.check_fuzzy /\ a.check_history /\ a.check_history_fuzzy
      [] t = "wp_fuzzy" -> a.check_fuzzy /\ a.check_wp /\ a.check_wp_fuzzy
      [] t = "wb_fuzzy" -> a.check_fuzzy /\ a.check_wb /\ a.check_wb_fuzzy

\* the hits of a tier on the surviving substrings of a call
hits(t, a) ==
    {r \in {tier_probe(Self, t, sub, context(Self, a)) :
                sub \in {surviving(substrings_of(Self, a))[i] :
                            i \in 1..Len(surviving(substrings_of(Self, a)))}} :
        truthy(r) /\ r # TypeError}

ReturnedByTier == ret.op = "guess" /\ ret.status = "returned" /\ ret.how \in Tags

\* C1: when a call returns the hit of a tier, that tier accepts a surviving
\* substring and the value is its hit, and no enabled tier before it in
\* the order gm, history, wp, wb, gm_fuzzy, history_fuzzy, wp_fuzzy,
\* wb_fuzzy accepts any surviving substring; when a call returns
\* no_match_found, no enabled tier accepts any.
TierOrder ==
    /\ ReturnedByTier =>
         /\ ret.value \in hits(ret.how, args)
         /\ \A k \in 1..Len(CLAIMED_ORDER) :
              (\E m \in (k + 1)..Len(CLAIMED_ORDER) : CLAIMED_ORDER[m] = ret.how)
              /\ claimed_enabled(CLAIMED_ORDER[k], args)
              => hits(CLAIMED_ORDER[k], args) = {}
    /\ (ret.op = "guess" /\ ret.status = "returned" /\ ret.how = "no_match_found") =>
         \A t \in Tags : claimed_enabled(t, args) => hits(t, args) = {}

\* a call returned from a fuzzy tier with every tier enabled, so that
\* seven earlier tiers were passed by
TierOrderWitness ==
    /\ ReturnedByTier
    /\ ret.how = "wb_fuzzy"
    /\ \A t \in Tags : claimed_enabled(t, args)

\* C2: the tier a call returns from is enabled by the flags as passed: its
\* own flag is true, for a fuzzy tier check_fuzzy is true too, and for the
\* fuzzy historical, place and neighbourhood tiers so is the flag of the
\* exact tier.
FlagSubordination ==
    ReturnedByTier =>
        /\ claimed_enabled(ret.how, args)
        /\ ~args.check_fuzzy =>
             ret.how \notin {"gm_fuzzy", "history_fuzzy", "wp_fuzzy", "wb_fuzzy"}

\* check_history is off and check_history_fuzzy on, the fuzzy historical
\* tier would accept the input, and a later tier answered
FlagSubordinationWitness ==
    /\ ReturnedByTier
    /\ ~args.check_history /\ args.check_history_fuzzy /\ args.check_fuzzy
    /\ hits("history_fuzzy", args) # {}
    /\ ret.how = "wp_fuzzy"

\* two calls with the same raw input and the same options (return_how is
\* how the answer is handed back, not an option of the search)
same_query(a, b) == [a EXCEPT !.return_how = FALSE] = [b EXCEPT !.return_how = FALSE]

\* the earlier and later calls of the log that ask the same and of which
\* the earlier returned
Repeats ==
    {p \in (1..Len(log)) \X (1..Len(log)) :
        /\ p[1] < p[2]
        /\ same_query(log[p[1]].args, log[p[2]].args)
        /\ log[p[1]].ret.status = "returned"}

\* a call whose return leaves no cache entry: the Bergen special case
\* (guess.py:753-756) and a non-string input (guess.py:728-731)
Uncached(r) == r.how \in {"special", None}

\* C3 as stated: a call that repeats an earlier call returns the same
\* name, served from the cache, without a tier lookup.
RepeatsServedFromCache ==
    \A p \in Repeats :
        /\ log[p[2]].ret.status = "returned"
        /\ log[p[2]].ret.value = log[p[1]].ret.value
        /\ log[p[2]].ret.cached
        /\ log[p[2]].ret.lookups = 0

\* C3, amended: a call that repeats an earlier call returns the same name
\* without a tier lookup; it is served from the cache unless the earlier
\* call returned through the Bergen special case or for a non-string
\* input, which leave no cache entry and are computed again.
RepeatsAnswerAlike ==
    \A p \in Repeats :
        /\ log[p[2]].ret.status = "returned"
        /\ log[p[2]].ret.value = log[p[1]].ret.value
        /\ log[p[2]].ret.lookups = 0
        /\ log[p[2]].ret.cached <=> ~Uncached(log[p[1]].ret)

\* a repeated call answered with a name from the cache, the first call
\* having gone through tier lookups
RepeatsWitness ==
    \E p \in Repeats :
        /\ log[p[1]].ret.lookups > 1
        /\ log[p[2]].ret.cached
        /\ log[p[2]].ret.value = "Venlo"

\* a method tag without the suffix the cache gives it
base_tag(how) == IF endswith(how, "_prev") THEN Upto(how, Len(how) - 5) ELSE how

\* the calls of the log that returned and were asked how
AskedHow == {i \in 1..Len(log) : log[i].args.return_how /\ log[i].ret.status = "returned"}

\* C4 as stated: the method tag of a call with return_how is one of the
\* eight tier tags or no_match_found, and two calls that ask the same get
\* the same tag, computed or cached.
TagNamesTier ==
    /\ \A i \in AskedHow : log[i].ret.how \in Tags \cup {"no_match_found"}
    /\ \A i \in AskedHow : \A j \in AskedHow :
         same_query(log[i].args, log[j].args) => log[i].ret.how = log[j].ret.how

\* C4, amended: a computed answer carries the tag of the tier that produced
\* it (the value being a hit of that tier), no_match_found, special for
\* the Bergen special case or None for a non-string input; an answer from
\* the cache carries the tier's tag with the suffix _prev, or
\* no_match_found; and two calls that ask the same get the same tag up to
\* that suffix.
TagNamesTierUpToSuffix ==
    /\ (ret.op = "guess" /\ ret.status = "returned" /\ args.return_how) =>
         IF ret.cached
         THEN \/ ret.how = "no_match_found"
              \/ \E t \in Tags : ret.how = t \o "_prev" /\ ret.value \in hits(t, args)
         ELSE \/ ret.how \in {"no_match_found", "special", None}
              \/ ret.how \in Tags /\ ret.value \in hits(ret.how, args)
    /\ \A i \in AskedHow : \A j \in AskedHow :
         same_query(log[i].args, log[j].args)
         => base_tag(log[i].ret.how) = base_tag(log[j].ret.how)

\* the same question asked twice with return_how: computed by the
\* historical tier, then served from the cache
TagWitness ==
    \E i \in AskedHow : \E j \in AskedHow :
        /\ i < j /\ same_query(log[i].args, log[j].args)
        /\ log[i].ret.how = "history" /\ log[j].ret.how = "history_prev"

\* C7: with clean, an input on the ignore list makes guess return absent.
IgnoredInputIsAbsent ==
    (/\ ret.op = "guess" /\ args.clean /\ args.location_name.type = "str"
     /\ in_list(strip(lower(args.location_name.v)), IGNORE))
    => ret.status = "returned" /\ ret.value = None

\* C8: with delimiters, guess splits the input, runs the tiers over the
\* pieces and returns a name or absent.
DelimitersSplit ==
    (ret.op = "guess" /\ args.delimiters) => ret.status = "returned"

\* the scope key a province argument names
named_key(province) ==
    IF lower(strip(province)) = "friesland" THEN "fryslân" ELSE lower(strip(province))

\* the caller supplied a province of the reference data
Recognized(a) ==
    /\ a.province \notin {None, ""}
    /\ \E i \in 1..Len(WP_TABLE) : lower(WP_TABLE[i].Naam_4) = named_key(a.province)

Unrecognized(a) == a.province \notin {None, ""} /\ ~Recognized(a)

\* the municipalities of a province, by the rows of the place table
municipalities_in(key) ==
    {WP_TABLE[i].Naam_2 : i \in {i \in 1..Len(WP_TABLE) : lower(WP_TABLE[i].Naam_4) = key}}

\* <<name, municipality>> for the entries of a province that an exact
\* tier looks names up in: its municipalities, its places, and the
\* neighbourhoods of its municipalities
entries_in(t, key) ==
    CASE t = "gm" -> {<<lower(g), g>> : g \in municipalities_in(key)}
      [] t = "wp" -> {<<lower(WP_TABLE[i].Woonplaatsen), WP_TABLE[i].Naam_2>> :
                         i \in {i \in 1..Len(WP_TABLE) : lower(WP_TABLE[i].Naam_4) = key}}
      [] t = "wb" -> {<<lower(KWB_TABLE[i].WijkenEnBuurten), KWB_TABLE[i].Gemeentenaam_1>> :
                         i \in {i \in 1..Len(KWB_TABLE) :
                                   KWB_TABLE[i].Gemeentenaam_1 \in municipalities_in(key)}}

aliases == {<<RECODE_GEM[i][1], RECODE_GEM[i][2]>> : i \in 1..Len(RECODE_GEM)}

\* the surviving substrings of a call, as a set
asked(a) ==
    {surviving(substrings_of(Self, a))[i] : i \in 1..Len(surviving(substrings_of(Self, a)))}

ExactInProvince ==
    /\ ReturnedByTier /\ ret.how \in {"gm", "wp", "wb"} /\ Recognized(args)

\* the input names no entry of the province at all
NothingInProvince(a) ==
    \A sub \in asked(a) : \A t \in {"gm", "wp", "wb"} :
        \A e \in entries_in(t, named_key(a.province)) : e[1] # sub

\* the input is a place outside the province and not one inside it
PlaceOnlyOutside(a) ==
    \E sub \in asked(a) :
        /\ \E i \in 1..Len(WP_TABLE) :
              /\ lower(WP_TABLE[i].Woonplaatsen) = sub
              /\ lower(WP_TABLE[i].Naam_4) # named_key(a.province)
        /\ \A e \in entries_in("wp", named_key(a.province)) : e[1] # sub

ExactOnly(a) == ~a.check_history /\ ~a.check_fuzzy

ProvinceFallback ==
    (ret.op = "guess" /\ Unrecognized(args)) =>
        \E o \in {guess_uncached(Self, With(args, "province", None))} :
            /\ ret.status = o.status
            /\ ret.value = o.value
            /\ ret.how = o.how

\* an unknown province given with a former municipality of Limburg that
\* the exact historical tier resolves
ProvinceFallbackWitness ==
    /\ ret.op = "guess" /\ Unrecognized(args)
    /\ args.location_name.v = "belveld"
    /\ ret.status = "returned" /\ ret.how = "history" /\ ret.value = "Venlo"

\* destinations of a dissolved record that are weighed against each other:
\* the record ended before match_year, tells of no new name and lists
\* several destinations
SeveralDestinations(text) ==
    /\ text.ended # None
    /\ ~str_le(match_year, Upto(text.ended, 4))
    /\ text.nieuwe_naam = None
    /\ Len(text.dests) >= 2

\* C9: when a dissolved register record lists several destinations, the
\* destination with the largest population is the successor when
\* 100 * largest_population / total_population equals threshold_ratio, and
\* the record has no successor when that ratio is below threshold_ratio.
RatioAtThresholdAccepted ==
    (ret.op = "parse_explanation" /\ SeveralDestinations(args.text)) =>
        LET top == largest(args.text.dests)
            total == population_sum(args.text.dests)
        IN /\ 100 * top[2] = threshold_ratio * total => ret.destination = top[1]
           /\ 100 * top[2] < threshold_ratio * total => ret.destination = None

\* the distinct resolved targets among the candidates
targets(subset, col) == {subset[i][col] : i \in 1..Len(subset)}

\* C10: lookup_history returns a municipality only when the candidates of
\* the encyclopedia step or those of the register step, filtered, expanded,
\* matched and de-duplicated by resolved target, have exactly one distinct
\* target, and then returns that target; when neither step is left with
\* exactly one target it returns absent.
HistoryCardinality ==
    ret.op = "lookup_history" =>
        LET wiki == targets(ret.subset, "latest_gm_name")
            cbs == targets(ret.subset2, "current_gm_name")
        IN /\ ret.value # None =>
                \/ cbs = {ret.value}
                \/ wiki = {ret.value}
           /\ (Cardinality(wiki) # 1 /\ Cardinality(cbs) # 1) => ret.value = None

\* a lookup left with several distinct targets in either step, none of
\* which is returned
HistoryCardinalityWitness ==
    /\ ret.op = "lookup_history"
    /\ Cardinality(targets(ret.subset, "latest_gm_name")) >= 2
    /\ Cardinality(targets(ret.subset2, "current_gm_name")) >= 2
    /\ ret.value = None

\* the records a returned result rests on: the one candidate of the
\* encyclopedia step and the one candidate of the register step
contributing ==
    {ret.subset[i] : i \in {i \in 1..Len(ret.subset) : Len(ret.subset) = 1}}
    \cup {ret.subset2[i] : i \in {i \in 1..Len(ret.subset2) : Len(ret.subset2) = 1}}

\* a record is of the province asked for, or of no known province
of_province(row, province) ==
    row.province = None \/ lower(row.province) = lower(province)

\* C11: when a date is supplied, every record that contributes to the
\* returned result was valid at that date, for a textual name and for a
\* numeric code alike; and when a province is supplied, every contributing
\* record has that province or an unknown one.
DateRestriction ==
    (ret.op = "lookup_history" /\ ret.value # None) =>
        \A row \in contributing :
            /\ args.h.date # None => valid_at(row, args.h.date)
            /\ args.h.province # None => of_province(row, args.h.province)

\* C12: guess on a name that guess returned, lower-cased and with default
\* options, returns that name.
Idempotence ==
    Len(log) = 2 =>
        /\ log[2].ret.status = "returned"
        /\ log[2].ret.value = log[1].ret.value

\* C13 as stated: after a call of guess that returned, the cache holds an
\* entry under the call's key, whichever way the call ended.
CacheRecordsEveryReturn ==
    (ret.op = "guess" /\ ret.status = "returned") => params_key(args) \in DOMAIN found_results

\* C13, amended: after a call of guess that returned with a tier's match
\* or with no match, the cache holds under the call's key the name returned
\* and the method; a call that returned through the Bergen special case or
\* for a non-string input leaves no entry under its key.
CacheRecordsTierOutcomes ==
    (ret.op = "guess" /\ ret.status = "returned") =>
        IF Uncached(ret) THEN params_key(args) \notin DOMAIN found_results
        ELSE /\ params_key(args) \in DOMAIN found_results
             /\ found_results[params_key(args)][1] = ret.value
             /\ base_tag(found_results[params_key(args)][2]) = base_tag(ret.how)

\* a first call that ends without a match, recorded under its key
CacheRecordsWitness ==
    /\ ret.op = "guess" /\ ret.status = "returned" /\ ~ret.cached
    /\ ret.how = "no_match_found"
    /\ params_key(args) \in DOMAIN found_results
    /\ found_results[params_key(args)] = <<None, "no_match_found">>

\* the successor that the record with code c names and the share that goes
\* to it, as parse_explanation reads them
hop_of(table, c) ==
    LET mask(row) == row.Gemeentecode = c
        rows == SelectSeq(table, mask)
    IN IF Len(rows) = 0 THEN <<None, NoRatio>>
       ELSE LET e == parse_explanation(rows[1].Toelichting) IN <<e[3], e[4]>>

\* the hops from code c on, at most k of them
RECURSIVE walk(_, _, _)
walk(table, c, k) ==
    IF k = 0 \/ hop_of(table, c)[1] = None THEN <<>>
    ELSE <<hop_of(table, c)>> \o walk(table, hop_of(table, c)[1], k - 1)

\* the code reached after the hops of w
end_of(start, w) == IF Len(w) = 0 THEN start ELSE w[Len(w)][1]

\* the record with code c is split over destinations none of which has a
\* share above threshold_ratio
split_below_threshold(table, c) ==
    hop_of(table, c)[1] = None /\ hop_of(table, c)[2] # NoRatio

\* ratio0 * w[1]/100 * ... * w[k]/100 as numerator and denominator, in lowest
\* terms
RECURSIVE product(_, _, _)
product(ratio0, w, k) ==
    IF k = 0 THEN ratio0
    ELSE LET p == product(ratio0, w, k - 1)
             hop == ratio_of(w[k][2][1], w[k][2][2] * 100)
         IN ratio_of(p[1] * hop[1], p[2] * hop[2])

same_ratio(r, q) == r[1] * q[2] = q[1] * r[2]

ChainsEndWithinRecords ==
    ret.op \in {"follow", "follow_wiki"} => ret.hops <= Len(args.table)

\* C16 as stated: whenever the encyclopedia step of lookup_history is left
\* with exactly one target, lookup_history returns that target.
EncyclopediaTargetStands ==
    (ret.op = "lookup_history" /\ Len(ret.subset) = 1) =>
        ret.value = ret.subset[1].latest_gm_name

\* C16, amended: the register step follows the encyclopedia step in every
\* lookup, looking the encyclopedia's target up at its end date when the
\* encyclopedia step is left with exactly one target; lookup_history
\* returns the register step's target when that step is left with exactly
\* one candidate, else the encyclopedia's target when there is exactly
\* one, else absent.
RegisterFollowsEncyclopedia ==
    ret.op = "lookup_history" =>
        /\ ret.value =
              IF Len(ret.subset2) = 1 THEN ret.subset2[1].current_gm_name
              ELSE IF Len(ret.subset) = 1 THEN ret.subset[1].latest_gm_name
              ELSE None
        /\ Len(ret.subset) = 1 =>
              \A i \in 1..Len(ret.subset2) :
                  /\ ret.subset[1].until # None =>
                        valid_at(ret.subset2[i], ret.subset[1].until)
                  /\ ~args.h.fuzzy =>
                        ret.subset2[i].name_cleaned = lower(ret.subset[1].latest_gm_name)

\* a lookup whose encyclopedia step finds one target and whose register
\* step, asked for that target, finds one record and answers in its place
RegisterFollowsWitness ==
    /\ ret.op = "lookup_history"
    /\ Len(ret.subset) = 1 /\ Len(ret.subset2) = 1
    /\ ret.subset2[1].name_cleaned = lower(ret.subset[1].latest_gm_name)
    /\ ret.value = ret.subset2[1].current_gm_name
    /\ ret.value # ret.subset[1].latest_gm_name

\* the name of a record reaches the threshold against the name looked up,
\* or is one of the record's variant spellings
named_alike(row, h) ==
    \/ token_sort_score(h.name, row.name_cleaned) >= h.threshold_fuzzy
    \/ h.check_variants /\ "variants" \in DOMAIN row /\ in_list(h.name, row.variants)

\* C17: a fuzzy lookup_history that returns a municipality rests on a
\* record whose name scores at least threshold_fuzzy against the name
\* looked up: the one record of the encyclopedia step, or the one record
\* of the register step when the encyclopedia step has no single target.
FuzzyHistoryReachesThreshold ==
    (ret.op = "lookup_history" /\ ret.value # None /\ args.h.fuzzy
        /\ ~isnumeric(args.h.name)) =>
        IF Len(ret.subset) = 1 THEN named_alike(ret.subset[1], args.h)
        ELSE Len(ret.subset2) = 1 /\ named_alike(ret.subset2[1], args.h)

\* C18: no call of guess removes an entry of the cache or changes the value
\* of one, and no call changes gm, wp, wb, the substitution table or the
\* two historical tables.
CacheAppendOnly ==
    [][/\ \A k \in DOMAIN found_results :
            k \in DOMAIN found_results' /\ found_results'[k] = found_results[k]
       /\ UNCHANGED <<gm, wp, wb, replace, muni_history_wiki, muni_history_cbs>>]_vars

\* two calls with different keys, the entry of the first still in the cache
\* after the second has written its own
CacheAppendOnlyWitness ==
    /\ Len(log) = 2
    /\ ~log[2].ret.cached
    /\ params_key(log[1].args) # params_key(log[2].args)
    /\ {params_key(log[1].args), params_key(log[2].args)} \subseteq DOMAIN found_results
    /\ found_results[params_key(log[1].args)][1] = log[1].ret.value

====
